---------------------------- MODULE Spec2Model ----------------------------
(***************************************************************************)
(* torchlayers/normalization.py: the shape-inferring InstanceNorm and      *)
(* BatchNorm wrappers and the argument-reordering GroupNorm wrapper.       *)
(*                                                                         *)
(* A tensor is represented by its shape, a tuple of sizes.  A float is     *)
(* represented by its literal.  An omitted keyword argument is the empty   *)
(* sequence <<>>, a given one the one-element sequence <<value>>.          *)
(***************************************************************************)
EXTENDS Integers, Sequences, FiniteSets, TLC

VARIABLES
    self,         \* the wrapper object: its type and its attributes
    args,         \* the arguments the caller gave to the constructor
    pc,           \* "new" before __init__ has run, "ready" after it
    torch_nn,     \* the class names that getattr(torch.nn, ...) finds
    inputs,       \* inputs.shape of the latest invocation (<<>> before any)
    raised,       \* the exception the latest invocation raised, or NoError
    calls,        \* number of invocations made so far
    resolved_at   \* index of the invocation that bound the delegate, 0 if none

vars == <<self, args, pc, torch_nn, inputs, raised, calls, resolved_at>>

---------------------------------------------------------------------------
(* Bounds of the model *)

MaxRank == 6
MaxFeatures == 2
MaxCalls == 3

(* Input shapes of every rank up to MaxRank; the sizes play no part *)
Shapes == {[i \in 1..r |-> 1] : r \in 0..MaxRank}

(* Literals the caller may pass besides the defaults *)
EpsValues == {"1e-05", "0.001"}
MomentumValues == {"0.1", "0.5"}

Opt(S) == {<<>>} \cup {<<v>> : v \in S}

---------------------------------------------------------------------------
(* Class names *)

InstanceNorm_renamed == "InstanceNormalization"

InstanceNorm == "InstanceNorm"

BatchNorm == "BatchNorm"

GroupNorm == "GroupNorm"

InferDimensionTypes == {InstanceNorm, BatchNorm}

None == "None"

NoModule == [cls |-> None]

NoError == [exception |-> None]

(* The normalization classes of torch.nn *)
TorchNN ==
    {"BatchNorm1d", "BatchNorm2d", "BatchNorm3d",
     "InstanceNorm1d", "InstanceNorm2d", "InstanceNorm3d",
     "GroupNorm", "LayerNorm", "LocalResponseNorm"}

(* getattr(torch.nn, name, None) *)
getattr(nn, name) == IF name \in nn THEN name ELSE None

(* raise ValueError("<module> could not be inferred from shape. Only       *)
(* <allowed> dimensional input allowed (including batch dimension),        *)
(* got <got>.")                                                            *)
ValueError(module_name, allowed, got) ==
    [exception |-> "ValueError", module |-> module_name,
     allowed |-> allowed, got |-> got]

Return(cls) == [raises |-> FALSE, cls |-> cls, error |-> NoError]

Raise(error) == [raises |-> TRUE, cls |-> None, error |-> error]

---------------------------------------------------------------------------
(* Constructors *)

\* InferDimension.__init__ with keyword arguments: remembers the class name
\* and stores every keyword argument as an attribute; no inner module yet.
InferDimension__init__(type, kwargs) ==
    [type |-> type, module_name |-> type, kwargs |-> kwargs,
     inner_module |-> NoModule]

Default(opt, d) == IF opt = <<>> THEN d ELSE opt[1]

InstanceNorm__init__kwargs_torchdefaults(a) ==
    [num_features |-> a.num_features,
     eps |-> Default(a.eps, "1e-05"),
     momentum |-> Default(a.momentum, "0.1"),
     affine |-> Default(a.affine, TRUE),
     track_running_stats |-> Default(a.track_running_stats, TRUE)]

InstanceNorm__init__kwargs(a) ==
    [num_features |-> a.num_features,
     eps |-> Default(a.eps, "1e-05"),
     momentum |-> Default(a.momentum, "0.1"),
     affine |-> Default(a.affine, FALSE),
     track_running_stats |-> Default(a.track_running_stats, FALSE)]

BatchNorm__init__kwargs_swapped(a) ==
    [num_features |-> a.num_features,
     eps |-> Default(a.eps, "1e-05"),
     momentum |-> Default(a.momentum, "0.1"),
     affine |-> Default(a.track_running_stats, TRUE),
     track_running_stats |-> Default(a.affine, TRUE)]

BatchNorm__init__kwargs(a) ==
    [num_features |-> a.num_features,
     eps |-> Default(a.eps, "1e-05"),
     momentum |-> Default(a.momentum, "0.1"),
     affine |-> Default(a.affine, TRUE),
     track_running_stats |-> Default(a.track_running_stats, TRUE)]

(* torch.nn.GroupNorm.__init__(num_groups, num_channels, eps, affine) *)
TorchGroupNorm__init__(num_groups, num_channels, eps, affine) ==
    [type |-> GroupNorm, num_groups |-> num_groups,
     num_channels |-> num_channels, eps |-> eps, affine |-> affine]

GroupNorm__init__super_unswapped(num_channels, num_groups, eps, affine) ==
    TorchGroupNorm__init__(num_channels, num_groups, eps, affine)

GroupNorm__init__super(num_channels, num_groups, eps, affine) ==
    TorchGroupNorm__init__(num_groups, num_channels, eps, affine)

InferDimensionArgs ==
    {[num_features |-> n, eps |-> e, momentum |-> m, affine |-> a,
      track_running_stats |-> t] :
        n \in 1..MaxFeatures, e \in Opt(EpsValues), m \in Opt(MomentumValues),
        a \in Opt(BOOLEAN), t \in Opt(BOOLEAN)}

GroupNormArgs ==
    {[num_channels |-> c, num_groups |-> g, eps |-> e, affine |-> a] :
        c \in 1..MaxFeatures, g \in 1..MaxFeatures,
        e \in Opt(EpsValues), a \in Opt(BOOLEAN)}

InstanceNorm__init__ ==
    /\ pc = "new"
    /\ self.type = InstanceNorm
    /\ self' = InferDimension__init__(self.type, InstanceNorm__init__kwargs(args))
    /\ pc' = "ready"
    /\ UNCHANGED <<args, torch_nn, inputs, raised, calls, resolved_at>>

BatchNorm__init__ ==
    /\ pc = "new"
    /\ self.type = BatchNorm
    /\ self' = InferDimension__init__(self.type, BatchNorm__init__kwargs(args))
    /\ pc' = "ready"
    /\ UNCHANGED <<args, torch_nn, inputs, raised, calls, resolved_at>>

GroupNorm__init__ ==
    /\ pc = "new"
    /\ self.type = GroupNorm
    /\ self' = GroupNorm__init__super(args.num_channels, args.num_groups,
                                      Default(args.eps, "1e-05"),
                                      Default(args.affine, TRUE))
    /\ pc' = "ready"
    /\ UNCHANGED <<args, torch_nn, inputs, raised, calls, resolved_at>>

---------------------------------------------------------------------------
(* Resolution *)

(* InferDimension._module_not_found: always fails, naming ranks 5, 4, 3 *)
InferDimension_module_not_found(obj, dimensions) ==
    Raise(ValueError(obj.module_name, <<5, 4, 3>>, dimensions))

(* Variants of BatchNorm._module_not_found with one slip each *)
BatchNorm_module_not_found_2d(obj, dimensions, nn) ==
    LET inner_class == getattr(nn, obj.module_name \o "2d")
    IN  IF dimensions = 2 /\ inner_class # None
        THEN Return(inner_class)
        ELSE Raise(ValueError(obj.module_name, <<5, 4, 3, 2>>, dimensions))

BatchNorm_module_not_found_message(obj, dimensions, nn) ==
    LET inner_class == getattr(nn, obj.module_name \o "1d")
    IN  IF dimensions = 2 /\ inner_class # None
        THEN Return(inner_class)
        ELSE Raise(ValueError(obj.module_name, <<5, 4, 3>>, dimensions))

BatchNorm_module_not_found_anyrank(obj, dimensions, nn) ==
    LET inner_class == getattr(nn, obj.module_name \o "1d")
    IN  IF inner_class # None
        THEN Return(inner_class)
        ELSE Raise(ValueError(obj.module_name, <<5, 4, 3, 2>>, dimensions))

BatchNorm_module_not_found_unchecked(obj, dimensions, nn) ==
    LET inner_class == getattr(nn, obj.module_name \o "1d")
    IN  IF dimensions = 2
        THEN Return(inner_class)
        ELSE Raise(ValueError(obj.module_name, <<5, 4, 3, 2>>, dimensions))

BatchNorm_module_not_found_inherited(obj, dimensions, nn) ==
    Raise(ValueError(obj.module_name, <<5, 4, 3, 2>>, dimensions))

(* BatchNorm._module_not_found *)
BatchNorm_module_not_found(obj, dimensions, nn) ==
    LET inner_class == getattr(nn, obj.module_name \o "1d")
    IN  IF dimensions = 2 /\ inner_class # None
        THEN Return(inner_class)
        ELSE Raise(ValueError(obj.module_name, <<5, 4, 3, 2>>, dimensions))

(* self._module_not_found(inputs), by method resolution order *)
module_not_found(obj, dimensions, nn) ==
    IF obj.type = BatchNorm
    THEN BatchNorm_module_not_found(obj, dimensions, nn)
    ELSE InferDimension_module_not_found(obj, dimensions)

(* The class the first invocation resolves to, or the error it raises *)
resolve(obj, dimensions, nn) ==
    LET inner_class ==
            getattr(nn, obj.module_name \o ToString(dimensions - 2) \o "d")
    IN  IF inner_class = None
        THEN module_not_found(obj, dimensions, nn)
        ELSE Return(inner_class)

\* inner_class called with the stored keyword arguments; id is the identity
\* of the new object (objects created by different invocations differ)
instantiate(cls, kwargs, id) == [cls |-> cls, kwargs |-> kwargs, id |-> id]

(* forward without the check for an already bound inner module *)
forward_reresolve(shape) ==
    /\ pc = "ready"
    /\ self.type \in InferDimensionTypes
    /\ calls < MaxCalls
    /\ calls' = calls + 1
    /\ inputs' = shape
    /\ LET dimensions == Len(shape)
           found == resolve(self, dimensions, torch_nn)
       IN  IF found.raises
           THEN /\ raised' = found.error
                /\ UNCHANGED <<self, resolved_at>>
           ELSE /\ self' = [self EXCEPT !.inner_module =
                               instantiate(found.cls, self.kwargs, calls + 1)]
                /\ raised' = NoError
                /\ resolved_at' = calls + 1
    /\ UNCHANGED <<args, pc, torch_nn>>

(* InferDimension.forward(inputs) *)
forward(shape) ==
    /\ pc = "ready"
    /\ self.type \in InferDimensionTypes
    /\ calls < MaxCalls
    /\ calls' = calls + 1
    /\ inputs' = shape
    /\ IF self.inner_module # NoModule
       THEN /\ raised' = NoError
            /\ UNCHANGED <<self, resolved_at>>
       ELSE LET dimensions == Len(shape)
                found == resolve(self, dimensions, torch_nn)
            IN  IF found.raises
                THEN /\ raised' = found.error
                     /\ UNCHANGED <<self, resolved_at>>
                ELSE /\ self' = [self EXCEPT !.inner_module =
                                    instantiate(found.cls, self.kwargs, calls + 1)]
                     /\ raised' = NoError
                     /\ resolved_at' = calls + 1
    /\ UNCHANGED <<args, pc, torch_nn>>

(* torch.nn.GroupNorm.forward, inherited unchanged: no inference step *)
GroupNorm_forward(shape) ==
    /\ pc = "ready"
    /\ self.type = GroupNorm
    /\ calls < MaxCalls
    /\ calls' = calls + 1
    /\ inputs' = shape
    /\ raised' = NoError
    /\ UNCHANGED <<self, args, pc, torch_nn, resolved_at>>

---------------------------------------------------------------------------
(* Specifications *)

InitObject ==
    /\ \/ /\ self \in {[type |-> t] : t \in InferDimensionTypes}
          /\ args \in InferDimensionArgs
       \/ /\ self = [type |-> GroupNorm]
          /\ args \in GroupNormArgs
    /\ pc = "new"
    /\ inputs = <<>>
    /\ raised = NoError
    /\ calls = 0
    /\ resolved_at = 0

Init ==
    /\ InitObject
    /\ torch_nn = TorchNN

(* A torch.nn in which 1D variants may be missing *)
InitUnregistered ==
    /\ InitObject
    /\ torch_nn \in {TorchNN \ S : S \in SUBSET {"BatchNorm1d", "InstanceNorm1d"}}

Next ==
    \/ InstanceNorm__init__
    \/ BatchNorm__init__
    \/ GroupNorm__init__
    \/ \E shape \in Shapes : forward(shape)
    \/ \E shape \in Shapes : GroupNorm_forward(shape)

Spec == Init /\ [][Next]_vars

SpecUnregistered == InitUnregistered /\ [][Next]_vars

---------------------------------------------------------------------------
(* Vocabulary of the properties *)

Constructed == pc = "ready"

IsInferring == Constructed /\ self.type # GroupNorm

Resolved == IsInferring /\ self.inner_module # NoModule

Unresolved == IsInferring /\ self.inner_module = NoModule

(* The family of torch.nn classes a wrapper belongs to *)
Family == IF self.type = BatchNorm THEN "BatchNorm" ELSE "InstanceNorm"

(* The ranks each wrapper accepts *)
Accepted == IF self.type = BatchNorm THEN 2..5 ELSE 3..5

(* The class each accepted rank stands for *)
Variant(rank) ==
    Family \o (CASE rank = 2 -> "1d" [] rank = 3 -> "1d"
                 [] rank = 4 -> "2d" [] rank = 5 -> "3d")

Range(seq) == {seq[i] : i \in 1..Len(seq)}

(* One invocation of an inferring wrapper *)
Invocation == IsInferring /\ calls' = calls + 1

---------------------------------------------------------------------------
(* C1: for InstanceNorm and BatchNorm and every rank r in 3..5, the first  *)
(* invocation with an input of rank r succeeds and binds the wrapper to    *)
(* the (r-2)-dimensional class of its own family.                          *)
C1_FirstInvocationBindsVariant ==
    (IsInferring /\ calls = 1 /\ Len(inputs) \in 3..5) =>
        /\ raised = NoError
        /\ Resolved
        /\ self.inner_module.cls = Variant(Len(inputs))

C1_Witness ==
    /\ IsInferring /\ calls = 1 /\ Len(inputs) = 5
    /\ self.type = "InstanceNorm"
    /\ self.inner_module.cls = "InstanceNorm3d"

(* C2: for BatchNorm a first invocation of rank 2 succeeds and binds       *)
(* BatchNorm1d, the class rank 3 binds, although the generic lookup of     *)
(* the name for rank 2 finds no class.                                     *)
C2_BatchNormRank2Binds1d ==
    (IsInferring /\ self.type = "BatchNorm" /\ calls = 1 /\ Len(inputs) = 2) =>
        /\ getattr(torch_nn, "BatchNorm0d") = None
        /\ raised = NoError
        /\ Resolved
        /\ self.inner_module.cls = "BatchNorm1d"

C2_Witness ==
    /\ IsInferring /\ self.type = "BatchNorm" /\ calls = 1 /\ Len(inputs) = 2
    /\ self.inner_module.cls = "BatchNorm1d"

(* C3: an invocation of an unresolved wrapper with a rank outside its      *)
(* accepted range (InstanceNorm 3..5, BatchNorm 2..5) raises the           *)
(* ValueError, whose message names the accepted ranks and the observed     *)
(* rank, and binds no delegate.                                            *)
C3_RejectedRankRaises ==
    [][(Invocation /\ Unresolved /\ Len(inputs') \notin Accepted) =>
            /\ raised'.exception = "ValueError"
            /\ Range(raised'.allowed) = Accepted
            /\ raised'.got = Len(inputs')
            /\ self' = self]_vars

C3_Witness ==
    /\ Unresolved /\ self.type = "BatchNorm" /\ calls = 1 /\ Len(inputs) = 6
    /\ raised = [exception |-> "ValueError", module |-> "BatchNorm",
                 allowed |-> <<5, 4, 3, 2>>, got |-> 6]

(* C4: once an InstanceNorm or BatchNorm wrapper is resolved, no further   *)
(* invocation, of the same rank or any other, resolves again or changes    *)
(* the bound delegate: the delegate keeps its class, its configuration     *)
(* and its identity.                                                       *)
C4_ResolutionIdempotent ==
    [][Resolved =>
            /\ self'.inner_module = self.inner_module
            /\ self'.inner_module.id = self.inner_module.id
            /\ resolved_at' = resolved_at]_vars

C4_Witness ==
    /\ Resolved /\ calls = 3 /\ resolved_at = 1
    /\ self.inner_module.id = 1
    /\ Len(inputs) = 4 /\ self.inner_module.cls = "BatchNorm2d"

(* C5 as stated: the transition Unresolved -> Resolved occurs on the       *)
(* first invocation (never on a later one).                                *)
C5_ResolvesOnFirstInvocation ==
    IsInferring => resolved_at \in {0, 1}

(* C5: a wrapper starts Unresolved; the transition Unresolved -> Resolved  *)
(* occurs at most once, on the first invocation whose rank the wrapper     *)
(* accepts (earlier invocations of rejected ranks leave it Unresolved),    *)
(* and binds the class that rank stands for; Resolved is terminal.         *)
C5_Lifecycle ==
    [][/\ (pc = "new" /\ pc' = "ready" /\ self'.type # GroupNorm) => Unresolved'
       /\ Unresolved => resolved_at = 0
       /\ Resolved => Resolved'
       /\ (Invocation /\ Unresolved /\ Len(inputs') \in Accepted) =>
                /\ Resolved'
                /\ resolved_at' = calls'
                /\ self'.inner_module.cls = Variant(Len(inputs'))
       /\ (Invocation /\ Unresolved /\ Len(inputs') \notin Accepted) =>
                Unresolved']_vars

C5_Witness ==
    /\ Resolved /\ self.type = "InstanceNorm"
    /\ calls = 3 /\ resolved_at = 2
    /\ self.inner_module.cls = "InstanceNorm2d"

(* C6: constructed without affine and track_running_stats, InstanceNorm    *)
(* holds affine = False and track_running_stats = False and BatchNorm      *)
(* holds affine = True and track_running_stats = True; both default eps    *)
(* to 1e-05 and momentum to 0.1.                                           *)
C6_Defaults ==
    IsInferring =>
        /\ args.affine = <<>> =>
                self.kwargs.affine = (self.type = "BatchNorm")
        /\ args.track_running_stats = <<>> =>
                self.kwargs.track_running_stats = (self.type = "BatchNorm")
        /\ args.eps = <<>> => self.kwargs.eps = "1e-05"
        /\ args.momentum = <<>> => self.kwargs.momentum = "0.1"

C6_Witness ==
    /\ IsInferring /\ self.type = "InstanceNorm"
    /\ args.affine = <<>> /\ args.track_running_stats = <<>>
    /\ args.eps = <<>> /\ args.momentum = <<>>
    /\ self.kwargs.affine = FALSE /\ self.kwargs.track_running_stats = FALSE

(* C7: GroupNorm constructed with num_channels first and num_groups second *)
(* is configured as torch.nn.GroupNorm(num_groups, num_channels) would be; *)
(* eps and affine are passed through, and invocations involve no           *)
(* inference: nothing is bound and the configuration never changes.        *)
C7_GroupNormReordered ==
    (Constructed /\ self.type = "GroupNorm") =>
        self = [type |-> "GroupNorm",
                num_groups |-> args.num_groups,
                num_channels |-> args.num_channels,
                eps |-> IF args.eps = <<>> THEN "1e-05" ELSE args.eps[1],
                affine |-> IF args.affine = <<>> THEN TRUE ELSE args.affine[1]]

C7_Witness ==
    /\ Constructed /\ self.type = "GroupNorm" /\ calls = 2
    /\ args.num_channels = 2 /\ args.num_groups = 1
    /\ self.num_channels = 2 /\ self.num_groups = 1

(* C8: for BatchNorm, when the first invocation has rank 2 and torch.nn    *)
(* has no BatchNorm1d, resolution raises the same ValueError as for a rank *)
(* outside 2..5, naming rank 2 and the ranks 5, 4, 3, 2; nothing is bound. *)
C8_Rank2WithoutVariantRaises ==
    [][(Invocation /\ Unresolved /\ self.type = "BatchNorm"
            /\ Len(inputs') = 2 /\ "BatchNorm1d" \notin torch_nn) =>
            /\ raised' = [exception |-> "ValueError", module |-> "BatchNorm",
                          allowed |-> <<5, 4, 3, 2>>, got |-> 2]
            /\ self' = self
            /\ Unresolved']_vars

C8_Witness ==
    /\ Unresolved /\ self.type = "BatchNorm" /\ "BatchNorm1d" \notin torch_nn
    /\ calls = 1 /\ Len(inputs) = 2
    /\ raised.exception = "ValueError" /\ raised.got = 2

(* C9: the delegate of a resolved InstanceNorm or BatchNorm is created     *)
(* with exactly the configuration stored at construction, every value      *)
(* under the name of the parameter the caller gave it for, whichever rank  *)
(* resolved the wrapper.                                                   *)
C9_ConfigurationForwarded ==
    Resolved =>
        /\ self.inner_module.kwargs = self.kwargs
        /\ DOMAIN self.inner_module.kwargs =
                {"num_features", "eps", "momentum", "affine",
                 "track_running_stats"}
        /\ self.inner_module.kwargs.num_features = args.num_features
        /\ args.eps # <<>> => self.inner_module.kwargs.eps = args.eps[1]
        /\ args.momentum # <<>> =>
                self.inner_module.kwargs.momentum = args.momentum[1]
        /\ args.affine # <<>> =>
                self.inner_module.kwargs.affine = args.affine[1]
        /\ args.track_running_stats # <<>> =>
                self.inner_module.kwargs.track_running_stats =
                    args.track_running_stats[1]

C9_Witness ==
    /\ Resolved /\ self.type = "BatchNorm" /\ Len(inputs) = 2 /\ calls = 1
    /\ args.affine = <<FALSE>> /\ args.track_running_stats = <<TRUE>>
    /\ args.eps = <<"0.001">> /\ args.momentum = <<"0.5">>
    /\ self.inner_module.kwargs.affine = FALSE
    /\ self.inner_module.kwargs.track_running_stats = TRUE

(* C10: an invocation that raises leaves the wrapper Unresolved with its   *)
(* stored configuration unchanged and nothing bound; it is one attempt,    *)
(* not retried; and the next invocation of an accepted rank resolves the   *)
(* wrapper all the same.                                                   *)
C10_FailureLeavesUnresolved ==
    [][/\ (Invocation /\ raised' # NoError) =>
                /\ self' = self
                /\ Unresolved'
                /\ resolved_at' = 0
       /\ (Invocation /\ raised # NoError /\ Len(inputs') \in Accepted) =>
                /\ raised' = NoError
                /\ Resolved'
                /\ self'.kwargs = self.kwargs]_vars

C10_Witness ==
    /\ Resolved /\ self.type = "BatchNorm" /\ raised = NoError
    /\ calls = 2 /\ resolved_at = 2 /\ Len(inputs) = 2

===========================================================================
